---------------------------- MODULE Spec2Model ----------------------------
(***************************************************************************)
(* Mockify API: the tracks and playlists controllers                       *)
(* (src/controllers/tracks.controller.js, playlists.controller.js).        *)
(*                                                                         *)
(* The persisted documents tracks.json and playlists.json are the state;   *)
(* every Express handler is one action that reads the document, decides,   *)
(* writes the document back and sends one response.                        *)
(*                                                                         *)
(* JSON values are tagged records, so that a body may carry a value of a   *)
(* type the handler did not expect:                                        *)
(*   [k |-> "int", n |-> 120]     a number that is an integer              *)
(*   [k |-> "frac"]               a number that is not an integer (1.5)    *)
(*   [k |-> "str", s |-> <<..>>]  a string, as its sequence of characters  *)
(*   [k |-> "arr", a |-> <<..>>]  an array of JSON values                  *)
(*   [k |-> "null"]               null                                     *)
(*   [k |-> "nan"]                NaN (never in a document: parseInt only) *)
(* An object is a function from its keys to JSON values; a key the object  *)
(* lacks reads as undefined.                                               *)
(***************************************************************************)
EXTENDS Integers, Sequences, FiniteSets, TLC

VARIABLES
  tracks,     \* models/tracks.json: the stored tracks, in their order
  playlists,  \* models/playlists.json: the stored playlists, in their order
  req,        \* the request served last: its handler, req.params.id, req.body
  res,        \* the response sent to it: its status and its JSON body
  deleted,    \* history: per collection, the ids of the records deleted so far
  nreq,       \* the number of requests served so far
  unreadable, \* the documents that are absent or that JSON.parse refuses
  calls       \* SpecFault, SpecRace: the requests by their order of arrival,
              \* each with its place in its handler and the responses sent

\* Under Spec, SpecPatch, SpecCreate and SpecList every fs.readFile and
\* fs.writeFile succeeds and a request is served from its read to its
\* response before the next one starts.  Under SpecFault and SpecRace a
\* handler runs in the steps its awaits cut it into: up to the read, from
\* the read to the write, from the write to the response.  SpecFault lets
\* fs.writeFile fail and documents be unreadable; SpecRace lets the steps
\* of several requests interleave.

vars == <<tracks, playlists, req, res, deleted, nreq, unreadable, calls>>

-----------------------------------------------------------------------------
(* JSON values *)

Num(n) == [k |-> "int", n |-> n]
Frac == [k |-> "frac"]
Str(s) == [k |-> "str", s |-> s]
Arr(a) == [k |-> "arr", a |-> a]
Null == [k |-> "null"]
NaN == [k |-> "nan"]
EmptyObject == [f \in {} |-> TRUE]

\* obj.key, where a missing key reads as undefined
Has(obj, key) == key \in DOMAIN obj

\* JavaScript truthiness of a JSON value: if (v) ...
Truthy(v) ==
  CASE v.k = "int" -> v.n # 0
    [] v.k = "frac" -> TRUE
    [] v.k = "str" -> v.s # <<>>
    [] v.k = "arr" -> TRUE
    [] OTHER -> FALSE

\* a === b on primitives: NaN equals nothing, not even itself
StrictEq(a, b) == a.k # "nan" /\ b.k # "nan" /\ a = b

-----------------------------------------------------------------------------
(* parseInt *)

DigitValue ==
  ("0" :> 0 @@ "1" :> 1 @@ "2" :> 2 @@ "3" :> 3 @@ "4" :> 4 @@
   "5" :> 5 @@ "6" :> 6 @@ "7" :> 7 @@ "8" :> 8 @@ "9" :> 9)

IsDigit(c) == c \in DOMAIN DigitValue

\* the length of the longest prefix of s made of digits
RECURSIVE DigitPrefixLen(_)
DigitPrefixLen(s) ==
  IF s # <<>> /\ IsDigit(Head(s)) THEN 1 + DigitPrefixLen(Tail(s)) ELSE 0

\* the decimal value of a sequence of digits
RECURSIVE DigitsValue(_)
DigitsValue(ds) ==
  IF ds = <<>> THEN 0
  ELSE 10 * DigitsValue(SubSeq(ds, 1, Len(ds) - 1)) + DigitValue[ds[Len(ds)]]

\* parseInt(s) of a string: an optional sign, then the leading digits; what
\* follows them is ignored, and NaN when there is no digit
parseInt(s) ==
  LET neg == s # <<>> /\ Head(s) = "-"
      body == IF s # <<>> /\ Head(s) \in {"-", "+"} THEN Tail(s) ELSE s
      n == DigitPrefixLen(body)
  IN IF n = 0 THEN NaN
     ELSE Num((IF neg THEN -1 ELSE 1) * DigitsValue(SubSeq(body, 1, n)))

-----------------------------------------------------------------------------
(* String.prototype methods, on strings of letters and digits *)

UpperCase ==
  << "A", "B", "C", "D", "E", "F", "G", "H", "I", "J", "K", "L", "M",
     "N", "O", "P", "Q", "R", "S", "T", "U", "V", "W", "X", "Y", "Z" >>

LowerCase ==
  << "a", "b", "c", "d", "e", "f", "g", "h", "i", "j", "k", "l", "m",
     "n", "o", "p", "q", "r", "s", "t", "u", "v", "w", "x", "y", "z" >>

IsUpper(c) == \E i \in 1..Len(UpperCase) : UpperCase[i] = c

\* one character of s.toLowerCase()
LowerOf(c) ==
  IF IsUpper(c) THEN LowerCase[CHOOSE i \in 1..Len(UpperCase) : UpperCase[i] = c] ELSE c

\* s.toLowerCase()
toLowerCase(s) == [i \in 1..Len(s) |-> LowerOf(s[i])]

\* s.includes(sub)
includes(s, sub) ==
  \E i \in 0..(Len(s) - Len(sub)) : SubSeq(s, i + 1, i + Len(sub)) = sub

\* where a character stands in the collation order: the digits, then the
\* letters, a letter's two cases at the same place
CollationWeight(c) ==
  IF IsDigit(c) THEN DigitValue[c]
  ELSE 9 + (CHOOSE i \in 1..Len(LowerCase) : LowerCase[i] = LowerOf(c))

\* -1, 0 or 1 as the sequence of integers x is before, equal to or after y,
\* position by position, a proper prefix being before
RECURSIVE CompareSeq(_, _)
CompareSeq(x, y) ==
  IF x = <<>> THEN (IF y = <<>> THEN 0 ELSE -1)
  ELSE IF y = <<>> THEN 1
  ELSE IF Head(x) < Head(y) THEN -1
  ELSE IF Head(x) > Head(y) THEN 1
  ELSE CompareSeq(Tail(x), Tail(y))

\* a.localeCompare(b) in the default locale: the letters and digits decide,
\* case apart; between strings equal but for case, the first difference in
\* case decides, lower case first
localeCompare(a, b) ==
  LET primary == CompareSeq([i \in 1..Len(a) |-> CollationWeight(a[i])],
                            [i \in 1..Len(b) |-> CollationWeight(b[i])])
  IN IF primary # 0 THEN primary
     ELSE CompareSeq([i \in 1..Len(a) |-> IF IsUpper(a[i]) THEN 1 ELSE 0],
                     [i \in 1..Len(b) |-> IF IsUpper(b[i]) THEN 1 ELSE 0])

-----------------------------------------------------------------------------
(* Joi schemas and schema.validate(req.body) *)

\* One key of a Joi.object schema: its name, its rule and whether it is
\* .required(). The rules:
\*   "string"    Joi.string()              a non-empty string
\*   "string0"   Joi.string().allow('')    a string, possibly empty
\*   "integer"   Joi.number().integer()    an integer, or a string of digits
\*   "strings"   Joi.array().items(Joi.string())
\*   "only"      Joi.string().valid('public', 'private')
Key(name, rule, required) == [name |-> name, rule |-> rule, required |-> required]

trackSchemaCreate ==
  << Key("naam", "string", TRUE),
     Key("bpm", "integer", TRUE),
     Key("duur", "integer", TRUE),
     Key("jaar", "integer", TRUE),
     Key("artiesten", "strings", TRUE),
     Key("genres", "strings", TRUE),
     Key("spotify_url", "string0", FALSE) >>

trackSchemaUpdate == <<Key("id", "integer", TRUE)>> \o trackSchemaCreate

playlistSchemaCreate ==
  << Key("naam", "string", TRUE),
     Key("beschrijving", "string", TRUE),
     Key("author", "string", TRUE),
     Key("visibility", "only", TRUE),
     Key("spotify_url", "string0", FALSE) >>

playlistSchemaUpdate == <<Key("id", "integer", TRUE)>> \o playlistSchemaCreate

public == <<"p", "u", "b", "l", "i", "c">>
private == <<"p", "r", "i", "v", "a", "t", "e">>
VisibilityValues == { Str(public), Str(private) }

NoError == [key |-> "", code |-> ""]
JoiError(key, code) == [key |-> key, code |-> code]

\* Joi.string() on a value that is present
StringRule(key, v, allowEmpty) ==
  IF v.k # "str" THEN JoiError(key, "string.base")
  ELSE IF v.s = <<>> /\ ~allowEmpty THEN JoiError(key, "string.empty")
  ELSE NoError

\* Joi.number().integer() on a value that is present; with Joi's default
\* convert option a string of digits is read as the number it spells
IntegerRule(key, v) ==
  CASE v.k = "int" -> NoError
    [] v.k = "frac" -> JoiError(key, "number.integer")
    [] v.k = "str" ->
         IF v.s # <<>> /\ DigitPrefixLen(v.s) = Len(v.s) THEN NoError
         ELSE JoiError(key, "number.base")
    [] OTHER -> JoiError(key, "number.base")

\* Joi.array().items(Joi.string()): the first item that is no non-empty
\* string fails the array
StringsRule(key, v) ==
  IF v.k # "arr" THEN JoiError(key, "array.base")
  ELSE LET bad == {i \in 1..Len(v.a) : StringRule(key, v.a[i], FALSE) # NoError}
       IN IF bad = {} THEN NoError
          ELSE StringRule(key, v.a[CHOOSE i \in bad : \A j \in bad : i <= j], FALSE)

\* Joi.string().valid('public', 'private')
OnlyRule(key, v) ==
  IF v \in VisibilityValues THEN NoError ELSE JoiError(key, "any.only")

\* one key of the schema against the body
KeyError(key, body) ==
  IF ~Has(body, key.name)
  THEN IF key.required THEN JoiError(key.name, "any.required") ELSE NoError
  ELSE LET v == body[key.name]
       IN CASE key.rule = "string" -> StringRule(key.name, v, FALSE)
            [] key.rule = "string0" -> StringRule(key.name, v, TRUE)
            [] key.rule = "integer" -> IntegerRule(key.name, v)
            [] key.rule = "strings" -> StringsRule(key.name, v)
            [] key.rule = "only" -> OnlyRule(key.name, v)

\* schema.validate(body).error: the first key of the schema, in declared
\* order, that fails; then a key of the body the schema does not know
Validate(schema, body) ==
  LET failing == {i \in 1..Len(schema) : KeyError(schema[i], body) # NoError}
      known == {schema[i].name : i \in 1..Len(schema)}
      unknown == DOMAIN body \ known
  IN IF failing # {}
     THEN KeyError(schema[CHOOSE i \in failing : \A j \in failing : i <= j], body)
     ELSE IF unknown # {}
     THEN JoiError(CHOOSE u \in unknown : TRUE, "object.unknown")
     ELSE NoError

-----------------------------------------------------------------------------
(* What the handlers share: the request, the response, object updates *)

Request(handler, id, body) == [handler |-> handler, id |-> id, body |-> body]

\* res.status(status).json(body)
Response(status, body) == [status |-> status, body |-> body]

\* obj[key] = v on a copy of obj
Assign(obj, key, v) ==
  [f \in DOMAIN obj \cup {key} |-> IF f = key THEN v ELSE obj[f]]

\* if (body[key]) obj[key] = body[key]
AssignIfTruthy(obj, body, key) ==
  IF Has(body, key) /\ Truthy(body[key]) THEN Assign(obj, key, body[key]) ELSE obj

\* if (body[key] !== undefined) obj[key] = body[key]
AssignIfDefined(obj, body, key) ==
  IF Has(body, key) THEN Assign(obj, key, body[key]) ELSE obj

\* req.body.spotify_url || ''
SpotifyUrlOrEmpty(body) ==
  IF Has(body, "spotify_url") /\ Truthy(body["spotify_url"])
  THEN body["spotify_url"] ELSE Str(<<>>)

\* Math.max(...ids) of a non-empty set of integers
MathMax(S) == CHOOSE m \in S : \A n \in S : n <= m

\* mutant: array.splice(index), which removes up to the end
Splice_ToEnd(array, index) == SubSeq(array, 1, index)

\* array.splice(index, 1), index counted from 0
Splice(array, index) ==
  SubSeq(array, 1, index) \o SubSeq(array, index + 2, Len(array))

\* array[index] = item, index counted from 0 and within the array
SetAt(array, index, item) == [array EXCEPT ![index + 1] = item]

\* the index of the record whose id, written out, is the path id as sent:
\* what a lookup that forgets parseInt finds
FindIndexById_Unparsed(array, id) ==
  LET hits == {i \in 1..Len(array) :
                 /\ DigitPrefixLen(id) = Len(id)
                 /\ StrictEq(array[i]["id"], parseInt(id))}
  IN IF hits = {} THEN -1 ELSE (CHOOSE i \in hits : \A j \in hits : i <= j) - 1

\* array.findIndex(x => x.id === parseInt(id)): counted from 0, -1 for none
FindIndexById(array, id) ==
  LET hits == {i \in 1..Len(array) : StrictEq(array[i]["id"], parseInt(id))}
  IN IF hits = {} THEN -1 ELSE (CHOOSE i \in hits : \A j \in hits : i <= j) - 1

\* a list request: its handler and req.query, whose values are strings
ListRequest(handler, query) ==
  [handler |-> handler, id |-> <<>>, body |-> EmptyObject, query |-> query]

asc == <<"a", "s", "c">>
desc == <<"d", "e", "s", "c">>

\* mutant: both directions compare a.naam with b.naam
CompareNaam_OneWay(a, b, sort) == localeCompare(a["naam"].s, b["naam"].s)

\* the compare functions handed to sort:
\* asc (a, b) => a.naam.localeCompare(b.naam), desc the other way round
CompareNaam(a, b, sort) ==
  IF sort = asc THEN localeCompare(a["naam"].s, b["naam"].s)
  ELSE localeCompare(b["naam"].s, a["naam"].s)

\* item put into an array sorted under the compare function, behind the
\* items that are not after it
Insert(sorted, item, sort) ==
  LET behind == {i \in 1..Len(sorted) : CompareNaam(sorted[i], item, sort) > 0}
      at == IF behind = {} THEN Len(sorted) + 1
            ELSE CHOOSE i \in behind : \A j \in behind : i <= j
  IN SubSeq(sorted, 1, at - 1) \o <<item>> \o SubSeq(sorted, at, Len(sorted))

\* array.sort(compare): sorted, items that compare equal in their order
RECURSIVE Sort(_, _)
Sort(array, sort) ==
  IF array = <<>> THEN <<>>
  ELSE Insert(Sort(SubSeq(array, 1, Len(array) - 1), sort), array[Len(array)], sort)

\* if (sort === 'asc') array.sort(..) else if (sort === 'desc') array.sort(..)
SortIfAsked(array, query) ==
  IF Has(query, "sort") /\ query["sort"].s \in {asc, desc}
  THEN Sort(array, query["sort"].s)
  ELSE array

\* if (naam), if (artiest), ...: the query has the key, with a truthy value
Given(query, key) == Has(query, key) /\ Truthy(query[key])

-----------------------------------------------------------------------------
(* controllers/tracks.controller.js *)

\* mutant: t.naam.includes(naam), the cases left as they are
NaamFilter_CaseSensitive(array, query) ==
  IF Given(query, "naam")
  THEN SelectSeq(array, LAMBDA t : includes(t["naam"].s, query["naam"].s))
  ELSE array

\* tracks.filter(t => t.naam.toLowerCase().includes(naam.toLowerCase()))
NaamFilter(array, query) ==
  IF Given(query, "naam")
  THEN SelectSeq(array, LAMBDA t :
         includes(toLowerCase(t["naam"].s), toLowerCase(query["naam"].s)))
  ELSE array

\* tracks.filter(t => t.artiesten.some(a => a.toLowerCase().includes(..)))
ArtiestFilter(array, query) ==
  IF Given(query, "artiest")
  THEN SelectSeq(array, LAMBDA t : \E i \in 1..Len(t["artiesten"].a) :
         includes(toLowerCase(t["artiesten"].a[i].s), toLowerCase(query["artiest"].s)))
  ELSE array

\* tracks.filter(t => t.genres.some(g => g.toLowerCase().includes(..)))
GenreFilter(array, query) ==
  IF Given(query, "genre")
  THEN SelectSeq(array, LAMBDA t : \E i \in 1..Len(t["genres"].a) :
         includes(toLowerCase(t["genres"].a[i].s), toLowerCase(query["genre"].s)))
  ELSE array

\* tracks.filter(t => t.jaar === parseInt(jaar))
JaarFilter(array, query) ==
  IF Given(query, "jaar")
  THEN SelectSeq(array, LAMBDA t : StrictEq(t["jaar"], parseInt(query["jaar"].s)))
  ELSE array

\* the handler works on the array it has read and never writes it
getAllTracks(query) ==
  LET filtered == JaarFilter(GenreFilter(ArtiestFilter(NaamFilter(tracks, query),
                                                        query), query), query)
      listed == SortIfAsked(filtered, query)
  IN /\ req' = ListRequest("getAllTracks", query)
     /\ res' = Response(200, [success |-> TRUE, data |-> listed,
                              count |-> Num(Len(listed))])
     /\ UNCHANGED <<tracks, playlists, deleted>>

\* mutant: tracks.findIndex(t => t.id >= parseInt(id))
findTrackIndex_AtLeast(array, id) ==
  LET hits == {i \in 1..Len(array) :
                 parseInt(id).k = "int" /\ array[i]["id"].n >= parseInt(id).n}
  IN IF hits = {} THEN -1 ELSE (CHOOSE i \in hits : \A j \in hits : i <= j) - 1

findTrackIndex(array, id) == FindIndexById(array, id)

\* mutant: tracks.length + 1
NewTrackId_Length(array) == Num(Len(array) + 1)

\* tracks.length > 0 ? Math.max(...tracks.map(t => t.id)) + 1 : 1
NewTrackId(array) ==
  IF Len(array) > 0
  THEN Num(MathMax({array[i]["id"].n : i \in 1..Len(array)}) + 1)
  ELSE Num(1)

\* the object literal createTrack builds
NewTrack(newId, body) ==
  [id |-> newId,
   naam |-> body["naam"],
   bpm |-> body["bpm"],
   duur |-> body["duur"],
   jaar |-> body["jaar"],
   artiesten |-> body["artiesten"],
   genres |-> body["genres"],
   spotify_url |-> SpotifyUrlOrEmpty(body)]

\* mutant: id: req.body.id
UpdatedTrack_BodyId(id, body) ==
  [id |-> body["id"],
   naam |-> body["naam"],
   bpm |-> body["bpm"],
   duur |-> body["duur"],
   jaar |-> body["jaar"],
   artiesten |-> body["artiesten"],
   genres |-> body["genres"],
   spotify_url |-> SpotifyUrlOrEmpty(body)]

\* the object literal updateTrack builds: the id is the path's, not the body's
UpdatedTrack(id, body) ==
  [id |-> parseInt(id),
   naam |-> body["naam"],
   bpm |-> body["bpm"],
   duur |-> body["duur"],
   jaar |-> body["jaar"],
   artiesten |-> body["artiesten"],
   genres |-> body["genres"],
   spotify_url |-> SpotifyUrlOrEmpty(body)]

\* mutant: spotify_url merged as create and replace read it,
\* req.body.spotify_url || ''
PatchedTrack_UrlOrEmpty(track, body) ==
  LET merged == [f \in DOMAIN track |->
                   IF f # "spotify_url" /\ Has(body, f) /\ Truthy(body[f])
                   THEN body[f] ELSE track[f]]
  IN Assign(merged, "spotify_url", SpotifyUrlOrEmpty(body))

\* patchTrack's copy of the stored track with the body merged into it
PatchedTrack(track, body) ==
  LET t1 == AssignIfTruthy(track, body, "naam")
      t2 == AssignIfTruthy(t1, body, "bpm")
      t3 == AssignIfTruthy(t2, body, "duur")
      t4 == AssignIfTruthy(t3, body, "jaar")
      t5 == AssignIfTruthy(t4, body, "artiesten")
      t6 == AssignIfTruthy(t5, body, "genres")
  IN AssignIfDefined(t6, body, "spotify_url")

\* mutant: tracks.find(t => String(t.id) === req.params.id)
getTrackById_Unparsed(id) ==
  LET hit == FindIndexById_Unparsed(tracks, id)
  IN /\ req' = Request("getTrackById", id, EmptyObject)
     /\ res' = IF hit = -1
               THEN Response(404, EmptyObject)
               ELSE Response(200, [success |-> TRUE, data |-> tracks[hit + 1]])
     /\ UNCHANGED <<tracks, playlists, deleted>>

getTrackById(id) ==
  LET hit == findTrackIndex(tracks, id)
  IN /\ req' = Request("getTrackById", id, EmptyObject)
     /\ res' = IF hit = -1
               THEN Response(404, EmptyObject)
               ELSE Response(200, [success |-> TRUE, data |-> tracks[hit + 1]])
     /\ UNCHANGED <<tracks, playlists, deleted>>

createTrack(body) ==
  LET error == Validate(trackSchemaCreate, body)
      newTrack == NewTrack(NewTrackId(tracks), body)
  IN /\ req' = Request("createTrack", <<>>, body)
     /\ IF error # NoError
        THEN /\ res' = Response(400, [error |-> error])
             /\ UNCHANGED tracks
        ELSE /\ tracks' = Append(tracks, newTrack)
             /\ res' = Response(201, [success |-> TRUE, data |-> newTrack])
     /\ UNCHANGED <<playlists, deleted>>

\* mutant: the track is looked up before the body is validated
updateTrack_LookupFirst(id, body) ==
  LET error == Validate(trackSchemaUpdate, body)
      trackIndex == findTrackIndex(tracks, id)
      updatedTrack == UpdatedTrack(id, body)
  IN /\ req' = Request("updateTrack", id, body)
     /\ IF trackIndex = -1
        THEN /\ res' = Response(404, EmptyObject)
             /\ UNCHANGED tracks
        ELSE IF error # NoError
        THEN /\ res' = Response(400, [error |-> error])
             /\ UNCHANGED tracks
        ELSE /\ tracks' = SetAt(tracks, trackIndex, updatedTrack)
             /\ res' = Response(200, [success |-> TRUE, data |-> updatedTrack])
     /\ UNCHANGED <<playlists, deleted>>

updateTrack(id, body) ==
  LET error == Validate(trackSchemaUpdate, body)
      trackIndex == findTrackIndex(tracks, id)
      updatedTrack == UpdatedTrack(id, body)
  IN /\ req' = Request("updateTrack", id, body)
     /\ IF error # NoError
        THEN /\ res' = Response(400, [error |-> error])
             /\ UNCHANGED tracks
        ELSE IF trackIndex = -1
        THEN /\ res' = Response(404, EmptyObject)
             /\ UNCHANGED tracks
        ELSE /\ tracks' = SetAt(tracks, trackIndex, updatedTrack)
             /\ res' = Response(200, [success |-> TRUE, data |-> updatedTrack])
     /\ UNCHANGED <<playlists, deleted>>

patchTrack(id, body) ==
  LET trackIndex == findTrackIndex(tracks, id)
      updatedTrack == PatchedTrack(tracks[trackIndex + 1], body)
  IN /\ req' = Request("patchTrack", id, body)
     /\ IF trackIndex = -1
        THEN /\ res' = Response(404, EmptyObject)
             /\ UNCHANGED tracks
        ELSE /\ tracks' = SetAt(tracks, trackIndex, updatedTrack)
             /\ res' = Response(200, [success |-> TRUE, data |-> updatedTrack])
     /\ UNCHANGED <<playlists, deleted>>

deleteTrack(id) ==
  LET trackIndex == findTrackIndex(tracks, id)
      deletedTrack == tracks[trackIndex + 1]
  IN /\ req' = Request("deleteTrack", id, EmptyObject)
     /\ IF trackIndex = -1
        THEN /\ res' = Response(404, EmptyObject)
             /\ UNCHANGED <<tracks, deleted>>
        ELSE /\ tracks' = Splice(tracks, trackIndex)
             /\ res' = Response(200, [success |-> TRUE, data |-> deletedTrack])
             /\ deleted' = [deleted EXCEPT !.tracks = @ \cup {deletedTrack["id"].n}]
     /\ UNCHANGED playlists

-----------------------------------------------------------------------------
(* controllers/playlists.controller.js *)

\* mutant: the sorted array is written back
getAllPlaylists_WritesBack(query) ==
  LET listed == SortIfAsked(playlists, query)
  IN /\ req' = ListRequest("getAllPlaylists", query)
     /\ res' = Response(200, [success |-> TRUE, data |-> listed,
                              count |-> Num(Len(listed))])
     /\ playlists' = listed
     /\ UNCHANGED <<tracks, deleted>>

\* of req.query the handler reads sort only
getAllPlaylists(query) ==
  LET listed == SortIfAsked(playlists, query)
  IN /\ req' = ListRequest("getAllPlaylists", query)
     /\ res' = Response(200, [success |-> TRUE, data |-> listed,
                              count |-> Num(Len(listed))])
     /\ UNCHANGED <<tracks, playlists, deleted>>

findPlaylistIndex(array, id) == FindIndexById(array, id)

\* mutant: playlists.length + 1
NewPlaylistId_Length(array) == Num(Len(array) + 1)

\* mutant: the lowest id no playlist holds
NewPlaylistId_LowestFree(array) ==
  LET held == {array[i]["id"].n : i \in 1..Len(array)}
  IN Num(CHOOSE n \in 1..(Len(array) + 1) : n \notin held /\ \A m \in 1..(n - 1) : m \in held)

\* playlists.length > 0 ? Math.max(...playlists.map(p => p.id)) + 1 : 1
NewPlaylistId(array) ==
  IF Len(array) > 0
  THEN Num(MathMax({array[i]["id"].n : i \in 1..Len(array)}) + 1)
  ELSE Num(1)

\* the object literal createPlaylist builds
NewPlaylist(newId, body) ==
  [id |-> newId,
   naam |-> body["naam"],
   beschrijving |-> body["beschrijving"],
   author |-> body["author"],
   visibility |-> body["visibility"],
   spotify_url |-> SpotifyUrlOrEmpty(body)]

\* mutant: spotify_url: req.body.spotify_url, which JSON.stringify drops
\* when the body has none
UpdatedPlaylist_UrlAsSent(id, body) ==
  [f \in {"id", "naam", "beschrijving", "author", "visibility"}
         \cup ({"spotify_url"} \cap DOMAIN body) |->
     IF f = "id" THEN parseInt(id) ELSE body[f]]

\* the object literal updatePlaylist builds
UpdatedPlaylist(id, body) ==
  [id |-> parseInt(id),
   naam |-> body["naam"],
   beschrijving |-> body["beschrijving"],
   author |-> body["author"],
   visibility |-> body["visibility"],
   spotify_url |-> SpotifyUrlOrEmpty(body)]

\* mutant: { ...playlists[playlistIndex], ...req.body }
PatchedPlaylist_Spread(playlist, body) ==
  [f \in DOMAIN playlist \cup DOMAIN body |-> IF Has(body, f) THEN body[f] ELSE playlist[f]]

\* patchPlaylist's copy of the stored playlist with the body merged into it
PatchedPlaylist(playlist, body) ==
  LET p1 == AssignIfTruthy(playlist, body, "naam")
      p2 == AssignIfTruthy(p1, body, "beschrijving")
      p3 == AssignIfTruthy(p2, body, "author")
      p4 == AssignIfTruthy(p3, body, "visibility")
  IN AssignIfDefined(p4, body, "spotify_url")

\* mutant: data: playlists[0]
getPlaylistById_First(id) ==
  LET hit == findPlaylistIndex(playlists, id)
  IN /\ req' = Request("getPlaylistById", id, EmptyObject)
     /\ res' = IF hit = -1
               THEN Response(404, EmptyObject)
               ELSE Response(200, [success |-> TRUE, data |-> playlists[1]])
     /\ UNCHANGED <<tracks, playlists, deleted>>

getPlaylistById(id) ==
  LET hit == findPlaylistIndex(playlists, id)
  IN /\ req' = Request("getPlaylistById", id, EmptyObject)
     /\ res' = IF hit = -1
               THEN Response(404, EmptyObject)
               ELSE Response(200, [success |-> TRUE, data |-> playlists[hit + 1]])
     /\ UNCHANGED <<tracks, playlists, deleted>>

\* mutant: one id counter for both collections
createPlaylist_SharedIds(body) ==
  LET error == Validate(playlistSchemaCreate, body)
      newPlaylist == NewPlaylist(NewPlaylistId(playlists \o tracks), body)
  IN /\ req' = Request("createPlaylist", <<>>, body)
     /\ IF error # NoError
        THEN /\ res' = Response(400, [error |-> error])
             /\ UNCHANGED playlists
        ELSE /\ playlists' = Append(playlists, newPlaylist)
             /\ res' = Response(201, [success |-> TRUE, data |-> newPlaylist])
     /\ UNCHANGED <<tracks, deleted>>

createPlaylist(body) ==
  LET error == Validate(playlistSchemaCreate, body)
      newPlaylist == NewPlaylist(NewPlaylistId(playlists), body)
  IN /\ req' = Request("createPlaylist", <<>>, body)
     /\ IF error # NoError
        THEN /\ res' = Response(400, [error |-> error])
             /\ UNCHANGED playlists
        ELSE /\ playlists' = Append(playlists, newPlaylist)
             /\ res' = Response(201, [success |-> TRUE, data |-> newPlaylist])
     /\ UNCHANGED <<tracks, deleted>>

updatePlaylist(id, body) ==
  LET error == Validate(playlistSchemaUpdate, body)
      playlistIndex == findPlaylistIndex(playlists, id)
      updatedPlaylist == UpdatedPlaylist(id, body)
  IN /\ req' = Request("updatePlaylist", id, body)
     /\ IF error # NoError
        THEN /\ res' = Response(400, [error |-> error])
             /\ UNCHANGED playlists
        ELSE IF playlistIndex = -1
        THEN /\ res' = Response(404, EmptyObject)
             /\ UNCHANGED playlists
        ELSE /\ playlists' = SetAt(playlists, playlistIndex, updatedPlaylist)
             /\ res' = Response(200, [success |-> TRUE, data |-> updatedPlaylist])
     /\ UNCHANGED <<tracks, deleted>>

patchPlaylist(id, body) ==
  LET playlistIndex == findPlaylistIndex(playlists, id)
      updatedPlaylist == PatchedPlaylist(playlists[playlistIndex + 1], body)
  IN /\ req' = Request("patchPlaylist", id, body)
     /\ IF playlistIndex = -1
        THEN /\ res' = Response(404, EmptyObject)
             /\ UNCHANGED playlists
        ELSE /\ playlists' = SetAt(playlists, playlistIndex, updatedPlaylist)
             /\ res' = Response(200, [success |-> TRUE, data |-> updatedPlaylist])
     /\ UNCHANGED <<tracks, deleted>>

deletePlaylist(id) ==
  LET playlistIndex == findPlaylistIndex(playlists, id)
      deletedPlaylist == playlists[playlistIndex + 1]
  IN /\ req' = Request("deletePlaylist", id, EmptyObject)
     /\ IF playlistIndex = -1
        THEN /\ res' = Response(404, EmptyObject)
             /\ UNCHANGED <<playlists, deleted>>
        ELSE /\ playlists' = Splice(playlists, playlistIndex)
             /\ res' = Response(200, [success |-> TRUE, data |-> deletedPlaylist])
             /\ deleted' = [deleted EXCEPT !.playlists = @ \cup {deletedPlaylist["id"].n}]
     /\ UNCHANGED tracks

-----------------------------------------------------------------------------
(* The requests the model sends *)

\* how many requests one behaviour of Spec sends
MaxReqs == 2

\* how many PATCH requests one behaviour of SpecPatch sends
MaxPatches == 1

\* how many POST requests one behaviour of SpecCreate sends
MaxCreates == 2

\* how many list requests one behaviour of SpecList sends
MaxLists == 2

Restrict(obj, keys) == [f \in keys |-> obj[f]]

TrackFields == {"naam", "bpm", "duur", "jaar", "artiesten", "genres", "spotify_url"}
PlaylistFields == {"naam", "beschrijving", "author", "visibility", "spotify_url"}

\* req.params.id as the client wrote it: "1", "2", "3x" (parseInt reads 3)
\* and "x" (parseInt reads NaN)
PathIds == { <<"1">>, <<"2">>, <<"3", "x">>, <<"x">> }

TrackBodyA ==
  [naam |-> Str(<<"A">>), bpm |-> Num(120), duur |-> Num(180), jaar |-> Num(2024),
   artiesten |-> Arr(<<Str(<<"Q">>)>>), genres |-> Arr(<<Str(<<"R">>)>>)]

TrackBodyB ==
  [naam |-> Str(<<"b">>), bpm |-> Num(72), duur |-> Num(355), jaar |-> Num(1975),
   artiesten |-> Arr(<<Str(<<"X">>), Str(<<"Y">>)>>), genres |-> Arr(<<Str(<<"P">>)>>),
   spotify_url |-> Str(<<"u">>)]

TrackBodyC ==
  [naam |-> Str(<<"c">>), bpm |-> Num(90), duur |-> Num(60), jaar |-> Num(1999),
   artiesten |-> Arr(<<Str(<<"Z">>)>>), genres |-> Arr(<<Str(<<"J">>), Str(<<"K">>)>>),
   spotify_url |-> Str(<<"v">>)]

\* a body whose every value is falsy where the field's type has a falsy value
TrackBodyFalsy ==
  [naam |-> Str(<<>>), bpm |-> Num(0), duur |-> Num(0), jaar |-> Num(0),
   artiesten |-> Arr(<<>>), genres |-> Arr(<<>>), spotify_url |-> Str(<<>>)]

\* a body whose every value is of another type than the field's
TrackBodyIllTyped ==
  [naam |-> Num(5), bpm |-> Frac, duur |-> Str(<<"x">>), jaar |-> Null,
   artiesten |-> Str(<<"Q">>), genres |-> Arr(<<Num(1)>>), spotify_url |-> Null]

PlaylistBodyA ==
  [naam |-> Str(<<"C">>), beschrijving |-> Str(<<"r">>), author |-> Str(<<"M">>),
   visibility |-> Str(public)]

PlaylistBodyB ==
  [naam |-> Str(<<"d">>), beschrijving |-> Str(<<"s">>), author |-> Str(<<"N">>),
   visibility |-> Str(private), spotify_url |-> Str(<<"u">>)]

PlaylistBodyC ==
  [naam |-> Str(<<"e">>), beschrijving |-> Str(<<"t">>), author |-> Str(<<"O">>),
   visibility |-> Str(private), spotify_url |-> Str(<<"v">>)]

PlaylistBodyFalsy ==
  [naam |-> Str(<<>>), beschrijving |-> Str(<<>>), author |-> Str(<<>>),
   visibility |-> Str(<<>>), spotify_url |-> Str(<<>>)]

PlaylistBodyIllTyped ==
  [naam |-> Num(5), beschrijving |-> Null, author |-> Arr(<<>>),
   visibility |-> Str(<<"h", "i", "d", "d", "e", "n">>), spotify_url |-> Null]

WithId(body, id) == Assign(body, "id", id)

TrackCreateBodies ==
  { TrackBodyA, TrackBodyB, Restrict(TrackBodyA, {"naam"}), WithId(TrackBodyA, Num(1)) }

TrackUpdateBodies ==
  { WithId(TrackBodyA, Num(2)), WithId(TrackBodyB, Num(1)), TrackBodyA,
    WithId(TrackBodyB, Frac) }

TrackPatchBodies ==
  { Restrict(TrackBodyB, {"naam"}), Restrict(TrackBodyFalsy, {"bpm"}),
    Restrict(TrackBodyIllTyped, {"bpm"}),
    WithId(Restrict(TrackBodyB, {"jaar", "spotify_url"}), Num(9)) }

PlaylistCreateBodies ==
  { PlaylistBodyA, PlaylistBodyB, Restrict(PlaylistBodyA, {"naam"}),
    WithId(PlaylistBodyA, Num(1)) }

PlaylistUpdateBodies ==
  { WithId(PlaylistBodyA, Num(2)), WithId(PlaylistBodyB, Num(1)), PlaylistBodyA,
    WithId(Assign(PlaylistBodyB, "visibility", PlaylistBodyIllTyped["visibility"]), Num(1)) }

PlaylistPatchBodies ==
  { Restrict(PlaylistBodyB, {"naam"}), Restrict(PlaylistBodyIllTyped, {"visibility"}),
    WithId(Restrict(PlaylistBodyB, {"author", "spotify_url"}), Num(9)) }

\* the bodies of SpecPatch: every subset of the fields with truthy and with
\* falsy values, and every single field with a value of another type
TrackPatchBodiesAll ==
  { Restrict(values, keys) :
      values \in {TrackBodyC, TrackBodyFalsy}, keys \in SUBSET TrackFields }
  \cup { Restrict(TrackBodyIllTyped, {key}) : key \in TrackFields }

PlaylistPatchBodiesAll ==
  { Restrict(values, keys) :
      values \in {PlaylistBodyC, PlaylistBodyFalsy}, keys \in SUBSET PlaylistFields }
  \cup { Restrict(PlaylistBodyIllTyped, {key}) : key \in PlaylistFields }

\* the bodies of SpecCreate: valid ones; one required field left out; one
\* field with a value of another type; an id supplied; an integer field
\* written as a string of digits; one field with its falsy value
RequiredTrackFields == TrackFields \ {"spotify_url"}
RequiredPlaylistFields == PlaylistFields \ {"spotify_url"}

TrackCreateBodiesAll ==
  { TrackBodyA, TrackBodyB, WithId(TrackBodyA, Num(1)), WithId(TrackBodyB, Num(9)) }
  \cup { Restrict(TrackBodyB, TrackFields \ {key}) : key \in RequiredTrackFields }
  \cup { Assign(TrackBodyB, key, TrackBodyIllTyped[key]) : key \in TrackFields }
  \cup { Assign(TrackBodyB, key, Str(<<"7">>)) : key \in {"bpm", "duur", "jaar"} }
  \cup { Assign(TrackBodyB, key, TrackBodyFalsy[key]) : key \in TrackFields }

PlaylistCreateBodiesAll ==
  { PlaylistBodyA, PlaylistBodyB, WithId(PlaylistBodyA, Num(1)),
    WithId(PlaylistBodyB, Num(9)) }
  \cup { Restrict(PlaylistBodyB, PlaylistFields \ {key}) : key \in RequiredPlaylistFields }
  \cup { Assign(PlaylistBodyB, key, PlaylistBodyIllTyped[key]) : key \in PlaylistFields }
  \cup { Assign(PlaylistBodyB, key, PlaylistBodyFalsy[key]) : key \in PlaylistFields }

\* req.query of the list requests of SpecList: every key left out, or sent
\* with one of a few values (Null stands for a key that is left out)
MakeQuery(sent) == [key \in {k \in DOMAIN sent : sent[k] # Null} |-> sent[key]]

SortValues == { Null, Str(asc), Str(desc), Str(<<"u", "p">>) }
NaamValues == { Null, Str(<<>>), Str(<<"a">>), Str(<<"B">>) }
ArtiestValues == { Null, Str(<<"z">>) }
GenreValues == { Null, Str(<<"k">>) }
JaarValues == { Null, Str(<<>>), Str(<<"1", "9", "9", "9", "x">>), Str(<<"x">>) }

TrackQueries ==
  { MakeQuery([sort |-> s, naam |-> n, artiest |-> a, genre |-> g, jaar |-> j]) :
      s \in SortValues, n \in NaamValues, a \in ArtiestValues,
      g \in GenreValues, j \in JaarValues }

PlaylistQueries ==
  { MakeQuery([sort |-> s, naam |-> n, author |-> a, visibility |-> v]) :
      s \in SortValues, n \in {Null, Str(<<"c">>)}, a \in {Null, Str(<<"m">>)},
      v \in {Null, Str(public)} }

\* the path ids of SpecPatch
PatchPathIds == { <<"1">>, <<"2">>, <<"x">> }

-----------------------------------------------------------------------------
(* The documents the server starts from, and the specifications *)

\* models/tracks.json and models/playlists.json: empty, or records that
\* earlier creates left behind
SeedTracks ==
  { <<>>,
    <<NewTrack(Num(1), TrackBodyA), NewTrack(Num(2), TrackBodyB)>>,
    <<NewTrack(Num(1), TrackBodyB), NewTrack(Num(3), TrackBodyA)>> }

SeedPlaylists ==
  { <<>>,
    <<NewPlaylist(Num(1), PlaylistBodyA), NewPlaylist(Num(2), PlaylistBodyB)>>,
    <<NewPlaylist(Num(1), PlaylistBodyB), NewPlaylist(Num(3), PlaylistBodyA)>> }

Init ==
  /\ tracks \in SeedTracks
  /\ playlists \in SeedPlaylists
  /\ req = Request("", <<>>, EmptyObject)
  /\ res = Response(0, EmptyObject)
  /\ deleted = [tracks |-> {}, playlists |-> {}]
  /\ nreq = 0
  /\ unreadable = {}
  /\ calls = <<>>

\* requests are served one at a time
Served(handler) ==
  /\ nreq < MaxReqs
  /\ nreq' = nreq + 1
  /\ handler
  /\ UNCHANGED <<unreadable, calls>>

Next ==
  \/ \E id \in PathIds : Served(getTrackById(id))
  \/ \E body \in TrackCreateBodies : Served(createTrack(body))
  \/ \E id \in PathIds, body \in TrackUpdateBodies : Served(updateTrack(id, body))
  \/ \E id \in PathIds, body \in TrackPatchBodies : Served(patchTrack(id, body))
  \/ \E id \in PathIds : Served(deleteTrack(id))
  \/ \E id \in PathIds : Served(getPlaylistById(id))
  \/ \E body \in PlaylistCreateBodies : Served(createPlaylist(body))
  \/ \E id \in PathIds, body \in PlaylistUpdateBodies : Served(updatePlaylist(id, body))
  \/ \E id \in PathIds, body \in PlaylistPatchBodies : Served(patchPlaylist(id, body))
  \/ \E id \in PathIds : Served(deletePlaylist(id))

Spec == Init /\ [][Next]_vars

\* one PATCH request, its body drawn from every subset of the fields
Patched(handler) ==
  /\ nreq < MaxPatches
  /\ nreq' = nreq + 1
  /\ handler
  /\ UNCHANGED <<unreadable, calls>>

NextPatch ==
  \/ \E id \in PatchPathIds, body \in TrackPatchBodiesAll : Patched(patchTrack(id, body))
  \/ \E id \in PatchPathIds, body \in PlaylistPatchBodiesAll : Patched(patchPlaylist(id, body))

\* SpecPatch starts from documents that hold records to patch
InitPatch ==
  /\ Init
  /\ Len(tracks) > 0 /\ tracks[1]["naam"] = TrackBodyA["naam"]
  /\ Len(playlists) > 0 /\ playlists[1]["naam"] = PlaylistBodyA["naam"]

SpecPatch == InitPatch /\ [][NextPatch]_vars

\* POST requests only, their bodies valid and invalid in every way
Created(handler) ==
  /\ nreq < MaxCreates
  /\ nreq' = nreq + 1
  /\ handler
  /\ UNCHANGED <<unreadable, calls>>

NextCreate ==
  \/ \E body \in TrackCreateBodiesAll : Created(createTrack(body))
  \/ \E body \in PlaylistCreateBodiesAll : Created(createPlaylist(body))

SpecCreate == Init /\ [][NextCreate]_vars

Named(body, naam) == Assign(body, "naam", Str(naam))

\* documents to list, as creates have left them: names that differ in
\* case, a name stored twice, names out of order
ListSeedTracks ==
  <<NewTrack(Num(1), Named(TrackBodyB, <<"b">>)),
    NewTrack(Num(2), Named(TrackBodyC, <<"A", "b">>)),
    NewTrack(Num(3), Named(TrackBodyA, <<"a">>)),
    NewTrack(Num(5), Named(TrackBodyC, <<"a">>))>>

ListSeedPlaylists ==
  <<NewPlaylist(Num(1), Named(PlaylistBodyB, <<"d">>)),
    NewPlaylist(Num(2), Named(PlaylistBodyA, <<"C">>)),
    NewPlaylist(Num(4), Named(PlaylistBodyC, <<"c">>)),
    NewPlaylist(Num(5), Named(PlaylistBodyA, <<"c">>))>>

\* both documents empty, or both with their records
InitList ==
  /\ tracks \in { <<>>, ListSeedTracks }
  /\ playlists = IF tracks = <<>> THEN <<>> ELSE ListSeedPlaylists
  /\ req = Request("", <<>>, EmptyObject)
  /\ res = Response(0, EmptyObject)
  /\ deleted = [tracks |-> {}, playlists |-> {}]
  /\ nreq = 0
  /\ unreadable = {}
  /\ calls = <<>>

\* list requests only, one after another
Listed(handler) ==
  /\ nreq < MaxLists
  /\ nreq' = nreq + 1
  /\ handler
  /\ UNCHANGED <<unreadable, calls>>

NextList ==
  \/ \E query \in TrackQueries : Listed(getAllTracks(query))
  \/ \E query \in PlaylistQueries : Listed(getAllPlaylists(query))

SpecList == InitList /\ [][NextList]_vars

-----------------------------------------------------------------------------
(* The handlers in the steps their awaits cut them into *)

\* module.exports of the two controllers
TrackHandlers ==
  {"getAllTracks", "getTrackById", "createTrack", "updateTrack", "patchTrack", "deleteTrack"}

PlaylistHandlers ==
  {"getAllPlaylists", "getPlaylistById", "createPlaylist", "updatePlaylist",
   "patchPlaylist", "deletePlaylist"}

\* the document a handler reads and writes
Collection(handler) == IF handler \in TrackHandlers THEN "tracks" ELSE "playlists"

\* what the await of a read hands back: the parsed array, or the throw
Returned(array) == [threw |-> FALSE, data |-> array]
Threw == [threw |-> TRUE, data |-> <<>>]

\* mutant: readTracks without its try and catch
readTracks_Rethrows == IF "tracks" \in unreadable THEN Threw ELSE Returned(tracks)

\* try { JSON.parse(await fs.readFile(..)) } catch { return [] }
readTracks == IF "tracks" \in unreadable THEN Returned(<<>>) ELSE Returned(tracks)

readPlaylists == IF "playlists" \in unreadable THEN Returned(<<>>) ELSE Returned(playlists)

\* the message of the 500 response in each handler's catch block
ErrorMessage_Generic(handler) == "Something went wrong!"

ErrorMessage(handler) ==
  CASE handler = "getAllTracks" -> "Error retrieving tracks"
    [] handler = "getTrackById" -> "Error retrieving track"
    [] handler = "createTrack" -> "Error creating track"
    [] handler = "updateTrack" -> "Error updating track"
    [] handler = "patchTrack" -> "Error updating track"
    [] handler = "deleteTrack" -> "Error deleting track"
    [] handler = "getAllPlaylists" -> "Error retrieving playlists"
    [] handler = "getPlaylistById" -> "Error retrieving playlist"
    [] handler = "createPlaylist" -> "Error creating playlist"
    [] handler = "updatePlaylist" -> "Error updating playlist"
    [] handler = "patchPlaylist" -> "Error updating playlist"
    [] handler = "deletePlaylist" -> "Error deleting playlist"

\* the part of a handler before its first await: createX and updateX
\* validate req.body, the others go straight to the read
BodyError(request) ==
  CASE request.handler = "createTrack" -> Validate(trackSchemaCreate, request.body)
    [] request.handler = "updateTrack" -> Validate(trackSchemaUpdate, request.body)
    [] request.handler = "createPlaylist" -> Validate(playlistSchemaCreate, request.body)
    [] request.handler = "updatePlaylist" -> Validate(playlistSchemaUpdate, request.body)
    [] OTHER -> NoError

\* what a handler does with the array it has read: it answers at once, or it
\* holds the array it will write and the response it will send after the write
Answer(response) == [write |-> FALSE, array |-> <<>>, response |-> response]
WriteThenAnswer(array, response) == [write |-> TRUE, array |-> array, response |-> response]

getAllTracks_AfterRead(array, request) ==
  LET query == request.query
      filtered == JaarFilter(GenreFilter(ArtiestFilter(NaamFilter(array, query),
                                                        query), query), query)
      listed == SortIfAsked(filtered, query)
  IN Answer(Response(200, [success |-> TRUE, data |-> listed, count |-> Num(Len(listed))]))

getTrackById_AfterRead(array, request) ==
  LET hit == findTrackIndex(array, request.id)
  IN IF hit = -1
     THEN Answer(Response(404, EmptyObject))
     ELSE Answer(Response(200, [success |-> TRUE, data |-> array[hit + 1]]))

\* mutant: the new track is never pushed
createTrack_AfterRead_NoPush(array, request) ==
  LET newTrack == NewTrack(NewTrackId(array), request.body)
  IN WriteThenAnswer(array, Response(201, [success |-> TRUE, data |-> newTrack]))

createTrack_AfterRead(array, request) ==
  LET newTrack == NewTrack(NewTrackId(array), request.body)
  IN WriteThenAnswer(Append(array, newTrack),
                     Response(201, [success |-> TRUE, data |-> newTrack]))

updateTrack_AfterRead(array, request) ==
  LET trackIndex == findTrackIndex(array, request.id)
      updatedTrack == UpdatedTrack(request.id, request.body)
  IN IF trackIndex = -1
     THEN Answer(Response(404, EmptyObject))
     ELSE WriteThenAnswer(SetAt(array, trackIndex, updatedTrack),
                          Response(200, [success |-> TRUE, data |-> updatedTrack]))

patchTrack_AfterRead(array, request) ==
  LET trackIndex == findTrackIndex(array, request.id)
      updatedTrack == PatchedTrack(array[trackIndex + 1], request.body)
  IN IF trackIndex = -1
     THEN Answer(Response(404, EmptyObject))
     ELSE WriteThenAnswer(SetAt(array, trackIndex, updatedTrack),
                          Response(200, [success |-> TRUE, data |-> updatedTrack]))

deleteTrack_AfterRead(array, request) ==
  LET trackIndex == findTrackIndex(array, request.id)
  IN IF trackIndex = -1
     THEN Answer(Response(404, EmptyObject))
     ELSE WriteThenAnswer(Splice(array, trackIndex),
                          Response(200, [success |-> TRUE, data |-> array[trackIndex + 1]]))

getAllPlaylists_AfterRead(array, request) ==
  LET listed == SortIfAsked(array, request.query)
  IN Answer(Response(200, [success |-> TRUE, data |-> listed, count |-> Num(Len(listed))]))

getPlaylistById_AfterRead(array, request) ==
  LET hit == findPlaylistIndex(array, request.id)
  IN IF hit = -1
     THEN Answer(Response(404, EmptyObject))
     ELSE Answer(Response(200, [success |-> TRUE, data |-> array[hit + 1]]))

createPlaylist_AfterRead(array, request) ==
  LET newPlaylist == NewPlaylist(NewPlaylistId(array), request.body)
  IN WriteThenAnswer(Append(array, newPlaylist),
                     Response(201, [success |-> TRUE, data |-> newPlaylist]))

updatePlaylist_AfterRead(array, request) ==
  LET playlistIndex == findPlaylistIndex(array, request.id)
      updatedPlaylist == UpdatedPlaylist(request.id, request.body)
  IN IF playlistIndex = -1
     THEN Answer(Response(404, EmptyObject))
     ELSE WriteThenAnswer(SetAt(array, playlistIndex, updatedPlaylist),
                          Response(200, [success |-> TRUE, data |-> updatedPlaylist]))

patchPlaylist_AfterRead(array, request) ==
  LET playlistIndex == findPlaylistIndex(array, request.id)
      updatedPlaylist == PatchedPlaylist(array[playlistIndex + 1], request.body)
  IN IF playlistIndex = -1
     THEN Answer(Response(404, EmptyObject))
     ELSE WriteThenAnswer(SetAt(array, playlistIndex, updatedPlaylist),
                          Response(200, [success |-> TRUE, data |-> updatedPlaylist]))

deletePlaylist_AfterRead(array, request) ==
  LET playlistIndex == findPlaylistIndex(array, request.id)
  IN IF playlistIndex = -1
     THEN Answer(Response(404, EmptyObject))
     ELSE WriteThenAnswer(Splice(array, playlistIndex),
                          Response(200, [success |-> TRUE, data |-> array[playlistIndex + 1]]))

\* the routers: each route to its handler
AfterRead(array, request) ==
  CASE request.handler = "getAllTracks" -> getAllTracks_AfterRead(array, request)
    [] request.handler = "getTrackById" -> getTrackById_AfterRead(array, request)
    [] request.handler = "createTrack" -> createTrack_AfterRead(array, request)
    [] request.handler = "updateTrack" -> updateTrack_AfterRead(array, request)
    [] request.handler = "patchTrack" -> patchTrack_AfterRead(array, request)
    [] request.handler = "deleteTrack" -> deleteTrack_AfterRead(array, request)
    [] request.handler = "getAllPlaylists" -> getAllPlaylists_AfterRead(array, request)
    [] request.handler = "getPlaylistById" -> getPlaylistById_AfterRead(array, request)
    [] request.handler = "createPlaylist" -> createPlaylist_AfterRead(array, request)
    [] request.handler = "updatePlaylist" -> updatePlaylist_AfterRead(array, request)
    [] request.handler = "patchPlaylist" -> patchPlaylist_AfterRead(array, request)
    [] request.handler = "deletePlaylist" -> deletePlaylist_AfterRead(array, request)

\* a request that has not arrived yet.  pc is the await its handler stands
\* at; array and response are what the handler holds across its write; sent
\* are the responses it has sent.  History: fallback, its read came from
\* an unreadable document; failed, its write was rejected; alone, no other
\* request on its document was under way at any time since it arrived
NoCall ==
  [pc |-> "idle", request |-> ListRequest("", EmptyObject), array |-> <<>>,
   response |-> Response(0, EmptyObject), sent |-> <<>>,
   fallback |-> FALSE, failed |-> FALSE, alone |-> TRUE, raced |-> FALSE]

\* res.status(..).json(..)
Respond(call, response) == [call EXCEPT !.pc = "done", !.sent = Append(@, response)]

\* mutant: a catch block that sends nothing
Catch_Silent(call) == [call EXCEPT !.pc = "done"]

\* catch { res.status(500).json({ success: false, message: .. }) }
Catch(call) ==
  Respond(call, Response(500, [success |-> FALSE,
                               message |-> ErrorMessage(call.request.handler)]))

\* the other requests on the same document that stand at one of these awaits
Others(c, pcs) ==
  {d \in DOMAIN calls \ {c} :
     /\ calls[d].pc \in pcs
     /\ Collection(calls[d].request.handler) = Collection(calls[c].request.handler)}

\* the requests under way on the document of this handler
UnderWay(handler) ==
  {d \in DOMAIN calls :
     calls[d].pc \in {"read", "write"} /\ Collection(calls[d].request.handler) = Collection(handler)}

\* fs.writeFile has replaced the document by this array
Store(collection, array) ==
  /\ tracks' = IF collection = "tracks" THEN array ELSE tracks
  /\ playlists' = IF collection = "playlists" THEN array ELSE playlists
  /\ unreadable' = unreadable \ {collection}

\* fs.writeFile has left a document that JSON.parse refuses: truncated, or
\* the bytes of two writes mixed.  What it holds is not modelled
Garble(collection) ==
  /\ tracks' = IF collection = "tracks" THEN <<>> ELSE tracks
  /\ playlists' = IF collection = "playlists" THEN <<>> ELSE playlists
  /\ unreadable' = unreadable \cup {collection}

\* Express calls the handler, which runs up to its first await: a body the
\* schema refuses is answered with 400, otherwise the read begins
Begin(request) ==
  LET c == nreq + 1
      underWay == UnderWay(request.handler)
      arrived == [NoCall EXCEPT !.request = request]
  IN /\ c \in DOMAIN calls
     /\ nreq' = c
     /\ \E error \in {BodyError(request)} :
          calls' = [d \in DOMAIN calls |->
            IF d = c
            THEN IF error # NoError
                 THEN Respond(arrived, Response(400, [error |-> error]))
                 ELSE [arrived EXCEPT !.pc = "read", !.alone = (underWay = {})]
            ELSE IF error = NoError /\ d \in underWay
                 THEN [calls[d] EXCEPT !.alone = FALSE]
                 ELSE calls[d]]
     /\ UNCHANGED <<tracks, playlists, unreadable, req, res, deleted>>

\* the read completes and the handler runs up to its write or its response.
\* A read while another request writes the same document may see the
\* document as it was or a part of it, which JSON.parse refuses
Read(c) ==
  LET call == [calls[c] EXCEPT
                 !.fallback = Collection(calls[c].request.handler) \in unreadable]
      writing == Others(c, {"write"})
      whole == IF Collection(call.request.handler) = "tracks" THEN readTracks
               ELSE readPlaylists
  IN /\ call.pc = "read"
     /\ \E read \in {whole} \cup (IF writing = {} THEN {} ELSE {Returned(<<>>)}) :
          \E next \in {AfterRead(read.data, call.request)} :
             calls' = [d \in DOMAIN calls |->
               IF d = c
               THEN IF read.threw THEN Catch(call)
                    ELSE IF next.write
                    THEN [call EXCEPT !.pc = "write", !.array = next.array,
                                      !.response = next.response,
                                      !.raced = (writing # {})]
                    ELSE Respond(call, next.response)
               ELSE IF ~read.threw /\ next.write /\ d \in writing
                    THEN [calls[d] EXCEPT !.raced = TRUE]
                    ELSE calls[d]]
     /\ UNCHANGED <<tracks, playlists, unreadable, req, res, deleted, nreq>>

\* fs.writeFile resolves and the handler sends the response it held.  Of
\* two writes of one document that overlapped, either may be the one whose
\* bytes stay, or the bytes of both
Saved(c) ==
  LET call == calls[c]
      collection == Collection(call.request.handler)
  IN /\ call.pc = "write"
     /\ \/ Store(collection, call.array)
        \/ call.raced /\ Garble(collection)
        \/ /\ call.raced
           /\ Others(c, {"write"}) = {}
           /\ UNCHANGED <<tracks, playlists, unreadable>>
     /\ calls' = [calls EXCEPT ![c] = Respond(call, call.response)]
     /\ UNCHANGED <<req, res, deleted, nreq>>

\* fs.writeFile rejects, before it has touched the document or after it
\* has truncated it, and the handler's catch block answers
SaveFailed(c) ==
  LET call == calls[c]
      collection == Collection(call.request.handler)
  IN /\ call.pc = "write"
     /\ \/ UNCHANGED <<tracks, playlists, unreadable>>
        \/ Garble(collection)
     /\ calls' = [calls EXCEPT ![c] = Catch([call EXCEPT !.failed = TRUE])]
     /\ UNCHANGED <<req, res, deleted, nreq>>

\* how many requests one behaviour of SpecFault sends
MaxCalls == 2

\* how many requests one behaviour of SpecRace sends
MaxRacers == 2

\* a request with no query string
IORequest(handler, id, body) ==
  [handler |-> handler, id |-> id, body |-> body, query |-> EmptyObject]

IOPathIds == { <<"1">>, <<"2">> }

TrackRequests ==
  { ListRequest("getAllTracks", EmptyObject) }
  \cup { IORequest("getTrackById", id, EmptyObject) : id \in IOPathIds }
  \cup { IORequest("createTrack", <<>>, body) :
           body \in {TrackBodyA, Restrict(TrackBodyA, {"naam"})} }
  \cup { IORequest("updateTrack", id, WithId(TrackBodyC, Num(1))) : id \in IOPathIds }
  \cup { IORequest("updateTrack", <<"1">>, TrackBodyC) }
  \cup { IORequest("patchTrack", id, Restrict(TrackBodyC, {"naam"})) : id \in IOPathIds }
  \cup { IORequest("deleteTrack", id, EmptyObject) : id \in IOPathIds }

PlaylistRequests ==
  { ListRequest("getAllPlaylists", EmptyObject) }
  \cup { IORequest("getPlaylistById", id, EmptyObject) : id \in IOPathIds }
  \cup { IORequest("createPlaylist", <<>>, body) :
           body \in {PlaylistBodyA, Restrict(PlaylistBodyA, {"naam"})} }
  \cup { IORequest("updatePlaylist", id, WithId(PlaylistBodyC, Num(1))) : id \in IOPathIds }
  \cup { IORequest("updatePlaylist", <<"1">>, PlaylistBodyC) }
  \cup { IORequest("patchPlaylist", id, Restrict(PlaylistBodyC, {"naam"})) : id \in IOPathIds }
  \cup { IORequest("deletePlaylist", id, EmptyObject) : id \in IOPathIds }

\* the requests of SpecRace: writers of one document, and one of the other
RaceRequests ==
  { IORequest("createTrack", <<>>, TrackBodyA),
    IORequest("createTrack", <<>>, TrackBodyC),
    IORequest("patchTrack", <<"1">>, Restrict(TrackBodyC, {"naam"})),
    IORequest("deleteTrack", <<"1">>, EmptyObject),
    IORequest("createPlaylist", <<>>, PlaylistBodyA) }

IOSeedTracks == <<NewTrack(Num(1), TrackBodyB), NewTrack(Num(3), TrackBodyA)>>
IOSeedPlaylists == <<NewPlaylist(Num(1), PlaylistBodyB), NewPlaylist(Num(3), PlaylistBodyA)>>

\* each document holds records, or is absent or unparseable
InitFault ==
  /\ unreadable \in SUBSET {"tracks", "playlists"}
  /\ tracks = IF "tracks" \in unreadable THEN <<>> ELSE IOSeedTracks
  /\ playlists = IF "playlists" \in unreadable THEN <<>> ELSE IOSeedPlaylists
  /\ req = Request("", <<>>, EmptyObject)
  /\ res = Response(0, EmptyObject)
  /\ deleted = [tracks |-> {}, playlists |-> {}]
  /\ nreq = 0
  /\ calls = [c \in 1..MaxCalls |-> NoCall]

\* a request arrives after the one before it has been answered; a write
\* may fail
NextFault ==
  \/ \E request \in TrackRequests \cup PlaylistRequests :
       /\ \A d \in DOMAIN calls : calls[d].pc \in {"idle", "done"}
       /\ Begin(request)
  \/ \E c \in DOMAIN calls : Read(c)
  \/ \E c \in DOMAIN calls : Saved(c)
  \/ \E c \in DOMAIN calls : SaveFailed(c)

SpecFault == InitFault /\ [][NextFault]_vars

\* the requests of SpecAnswer: every request to /api/tracks, and the creates
\* of /api/playlists
AnswerRequests ==
  TrackRequests \cup {request \in PlaylistRequests : request.handler = "createPlaylist"}

\* both documents readable or neither
InitAnswer == InitFault /\ unreadable \in {{}, {"tracks", "playlists"}}

NextAnswer ==
  \/ \E request \in AnswerRequests :
       /\ \A d \in DOMAIN calls : calls[d].pc \in {"idle", "done"}
       /\ Begin(request)
  \/ \E c \in DOMAIN calls : Read(c)
  \/ \E c \in DOMAIN calls : Saved(c)
  \/ \E c \in DOMAIN calls : SaveFailed(c)

\* SpecFault with fewer requests, and fs completing every call made to it, by
\* resolving or by rejecting
SpecAnswer ==
  /\ InitAnswer /\ [][NextAnswer]_vars
  /\ WF_vars(\E c \in DOMAIN calls : Read(c))
  /\ WF_vars(\E c \in DOMAIN calls : Saved(c) \/ SaveFailed(c))

InitRace ==
  /\ unreadable = {}
  /\ tracks \in {<<>>, IOSeedTracks}
  /\ playlists = <<>>
  /\ req = Request("", <<>>, EmptyObject)
  /\ res = Response(0, EmptyObject)
  /\ deleted = [tracks |-> {}, playlists |-> {}]
  /\ nreq = 0
  /\ calls = [c \in 1..MaxRacers |-> NoCall]

\* a request may arrive while others stand at their awaits; every write
\* is carried out
NextRace ==
  \/ \E request \in RaceRequests : Begin(request)
  \/ \E c \in DOMAIN calls : Read(c)
  \/ \E c \in DOMAIN calls : Saved(c)

SpecRace == InitRace /\ [][NextRace]_vars

-----------------------------------------------------------------------------
(* What the claims speak of *)

Ids(array) == {array[i]["id"] : i \in 1..Len(array)}

UniqueIds(array) ==
  \A i, j \in 1..Len(array) : i # j => array[i]["id"] # array[j]["id"]

\* the last request was served by handler with this status
Answered(handler, status) == req.handler = handler /\ res.status = status

\* a step that serves handler with this status
Answers(handler, status) == req'.handler = handler /\ res'.status = status

-----------------------------------------------------------------------------
\* C1: whatever requests are served one after another, no two records of
\* tracks.json share an id and no two records of playlists.json share an id.
C1_UniqueIds == UniqueIds(tracks) /\ UniqueIds(playlists)

\* a create served after a delete left a gap in the ids
C1_Witness ==
  /\ Answered("createTrack", 201)
  /\ deleted.tracks # {}
  /\ Len(tracks) = 2

-----------------------------------------------------------------------------
\* What a create answered 201 did to its collection: the new record is the
\* response's data, it was appended to the stored records, it carries the
\* body's fields, and its id is an integer one above the largest id stored
\* before, or 1 when nothing was stored.
CreateAppended(before, after, request, response) ==
  LET new == response.body.data
  IN /\ response.body.success = TRUE
     /\ after = Append(before, new)
     /\ new["id"].k = "int"
     /\ IF before = <<>>
        THEN new["id"].n = 1
        ELSE /\ \A i \in 1..Len(before) : before[i]["id"].n < new["id"].n
             /\ \E i \in 1..Len(before) : before[i]["id"].n = new["id"].n - 1
     /\ \A f \in DOMAIN request.body : new[f] = request.body[f]

\* C2: a create answered 201 assigned max(ids) + 1 (1 for an empty
\* collection), appended the record, persisted it and returned it as data.
C2_CreateAssignsNextId ==
  [][ /\ Answers("createTrack", 201) => CreateAppended(tracks, tracks', req', res')
      /\ Answers("createPlaylist", 201) =>
           CreateAppended(playlists, playlists', req', res') ]_vars

\* a playlist created into a collection whose ids are 1 and 3
C2_Witness ==
  /\ Answered("createPlaylist", 201)
  /\ Len(playlists) = 3
  /\ res.body.data["id"] = Num(4)
  /\ deleted.playlists = {}

-----------------------------------------------------------------------------
\* C3, as claimed: an id that a deleted record held is never given to a
\* record created later.
C3_NeverReused ==
  /\ Answered("createTrack", 201) => res.body.data["id"].n \notin deleted.tracks
  /\ Answered("createPlaylist", 201) => res.body.data["id"].n \notin deleted.playlists

\* the ids of the records a create found stored (all but the one it appended)
IdsBeforeCreate(array) == {array[i]["id"].n : i \in 1..(Len(array) - 1)}

\* C3, amended: a create gives out the id of a deleted record only when that
\* id is above every id still stored; while a record with a larger id is
\* stored, the deleted record's id is not given out again.
C3_ReusedOnlyAboveAllStored ==
  /\ Answered("createTrack", 201) =>
       \A d \in deleted.tracks :
         (\E n \in IdsBeforeCreate(tracks) : n >= d) => res.body.data["id"].n # d
  /\ Answered("createPlaylist", 201) =>
       \A d \in deleted.playlists :
         (\E n \in IdsBeforeCreate(playlists) : n >= d) => res.body.data["id"].n # d

\* a playlist created after the playlist with the smallest id was deleted
C3_Witness ==
  /\ Answered("createPlaylist", 201)
  /\ \E d \in deleted.playlists : \E n \in IdsBeforeCreate(playlists) : n > d
  /\ res.body.data["id"].n \notin deleted.playlists

-----------------------------------------------------------------------------
\* the record of array that a request for path id addresses, as a set of
\* positions (ids are unique: at most one)
Addressed(array, id) ==
  {j \in 1..Len(array) : StrictEq(array[j]["id"], parseInt(id))}

\* What a patch answered 200 left alone: the addressed record keeps every
\* field the body does not name, it is what the response returns, and every
\* other record is as it was.
PatchFrame(before, after, request, response) ==
  /\ Len(after) = Len(before)
  /\ \A j \in 1..Len(before) :
       IF j \in Addressed(before, request.id)
       THEN /\ response.body.data = after[j]
            /\ \A f \in DOMAIN before[j] \ DOMAIN request.body :
                 f \in DOMAIN after[j] /\ after[j][f] = before[j][f]
       ELSE after[j] = before[j]

StrictSubset(S, T) == S \subseteq T /\ S # T

\* C4: a patch whose body names a strict subset of the fields leaves the
\* addressed record equal on every field the body does not name, id
\* included, and leaves every other record unchanged.
C4_PatchKeepsOtherFields ==
  [][ /\ (Answers("patchTrack", 200) /\ StrictSubset(DOMAIN req'.body, TrackFields))
           => PatchFrame(tracks, tracks', req', res') /\ playlists' = playlists
      /\ (Answers("patchPlaylist", 200) /\ StrictSubset(DOMAIN req'.body, PlaylistFields))
           => PatchFrame(playlists, playlists', req', res') /\ tracks' = tracks ]_vars

\* the second track patched on every field but jaar and spotify_url
C4_Witness ==
  /\ Answered("patchTrack", 200)
  /\ req.id = <<"2">>
  /\ req.body = Restrict(TrackBodyC, TrackFields \ {"jaar", "spotify_url"})
  /\ tracks[2]["naam"] = TrackBodyC["naam"]
  /\ tracks[2]["jaar"] = TrackBodyB["jaar"]
  /\ tracks[2]["spotify_url"] = TrackBodyB["spotify_url"]
  /\ tracks[1] = NewTrack(Num(1), TrackBodyA)

-----------------------------------------------------------------------------
\* a value of the type the data model declares for the field
HasType(f, v) ==
  CASE f \in {"naam", "beschrijving", "author", "spotify_url"} -> v.k = "str"
    [] f \in {"bpm", "duur", "jaar"} -> v.k = "int"
    [] f \in {"artiesten", "genres"} ->
         v.k = "arr" /\ \A i \in 1..Len(v.a) : v.a[i].k = "str"
    [] f = "visibility" -> v \in VisibilityValues
    [] OTHER -> FALSE

\* a patch answered 200 returned a stored record in which every field the
\* body names with a value of the field's type has the body's value
PatchOverwrote(array, fields) ==
  /\ \E j \in 1..Len(array) : array[j] = res.body.data
  /\ \A f \in DOMAIN req.body \cap fields :
       HasType(f, req.body[f]) => res.body.data[f] = req.body[f]

\* C5, as claimed: every field present in a PATCH body is overwritten with
\* the body's value, 0 and the empty string included.
C5_PatchOverwritesEveryField ==
  /\ Answered("patchTrack", 200) => PatchOverwrote(tracks, TrackFields)
  /\ Answered("patchPlaylist", 200) => PatchOverwrote(playlists, PlaylistFields)

-----------------------------------------------------------------------------
\* the body names a field with a value that is not of the field's type
IllTyped(body, fields) ==
  \E f \in DOMAIN body \cap fields : ~HasType(f, body[f])

\* C6, as claimed: a PATCH body with a field that violates its type or enum
\* is rejected, so every stored playlist has visibility public or private.
C6_PatchValidated ==
  /\ (req.handler = "patchTrack" /\ IllTyped(req.body, TrackFields)) => res.status # 200
  /\ (req.handler = "patchPlaylist" /\ IllTyped(req.body, PlaylistFields))
       => res.status # 200
  /\ \A i \in 1..Len(playlists) : playlists[i]["visibility"] \in VisibilityValues

-----------------------------------------------------------------------------
\* A replace, patch or delete step on a collection in which no record holds
\* the path id, the body of a replace being valid: answered 404 with {},
\* and nothing is written.
AbsentIdStep(handlers, schema, before) ==
  (/\ req'.handler \in handlers
   /\ Addressed(before, req'.id) = {}
   /\ req'.handler \in {"updateTrack", "updatePlaylist"}
        => Validate(schema, req'.body) = NoError)
  => (/\ res' = Response(404, EmptyObject)
      /\ tracks' = tracks
      /\ playlists' = playlists)

\* C7: replace, patch and delete of an id that no record holds answer 404
\* with {} and leave both documents as they were, each time they are sent.
C7_AbsentIdNoWrite ==
  [][ /\ AbsentIdStep({"updateTrack", "patchTrack", "deleteTrack"},
                      trackSchemaUpdate, tracks)
      /\ AbsentIdStep({"updatePlaylist", "patchPlaylist", "deletePlaylist"},
                      playlistSchemaUpdate, playlists) ]_vars

\* a valid replace of track 2, which does not exist, as the second request
C7_Witness ==
  /\ nreq = 2
  /\ Answered("updateTrack", 404)
  /\ Validate(trackSchemaUpdate, req.body) = NoError
  /\ parseInt(req.id) = Num(2)
  /\ Len(tracks) = 2

-----------------------------------------------------------------------------
\* array without its element at position j, the others in their order
Without(array, j) ==
  [i \in 1..(Len(array) - 1) |-> IF i < j THEN array[i] ELSE array[i + 1]]

\* A delete step on a collection that holds the path id: answered 200 with
\* the record removed, which is the only one removed.
DeleteStep(handler, before, after) ==
  (req'.handler = handler /\ Addressed(before, req'.id) # {})
  => \E j \in Addressed(before, req'.id) :
       /\ res' = Response(200, [success |-> TRUE, data |-> before[j]])
       /\ after = Without(before, j)
       /\ \A i \in 1..Len(after) : after[i]["id"] # before[j]["id"]

\* A getById step for the id that the delete answered just before removed:
\* answered 404.
GetAfterDeleteStep(deleteHandler, getHandler) ==
  (/\ Answered(deleteHandler, 200)
   /\ req'.handler = getHandler
   /\ parseInt(req'.id) = res.body.data["id"])
  => res' = Response(404, EmptyObject)

\* C8: a delete of an id that is present removes that record only, keeps
\* the others in their order, persists and answers 200 with the removed
\* record; a getById for that id right after answers 404.
C8_DeleteRemovesOne ==
  [][ /\ DeleteStep("deleteTrack", tracks, tracks') /\ GetAfterDeleteStep("deleteTrack", "getTrackById")
      /\ DeleteStep("deletePlaylist", playlists, playlists')
      /\ GetAfterDeleteStep("deletePlaylist", "getPlaylistById") ]_vars

\* getById of the track that the request before deleted, another track
\* still stored
C8_Witness ==
  /\ Answered("getTrackById", 404)
  /\ parseInt(req.id).k = "int"
  /\ parseInt(req.id).n \in deleted.tracks
  /\ Len(tracks) = 1

-----------------------------------------------------------------------------
SameIds(before, after) ==
  /\ Len(after) = Len(before)
  /\ \A i \in 1..Len(before) : after[i]["id"] = before[i]["id"]

\* C9: no replace and no patch, whatever id its body carries, changes the
\* id of any stored record.
C9_IdImmutable ==
  [][ req'.handler \in {"updateTrack", "patchTrack", "updatePlaylist", "patchPlaylist"}
        => SameIds(tracks, tracks') /\ SameIds(playlists, playlists') ]_vars

\* a patch answered 200 whose body carried another id than the record's
C9_Witness ==
  /\ Answered("patchPlaylist", 200)
  /\ Has(req.body, "id")
  /\ req.body["id"] # res.body.data["id"]

-----------------------------------------------------------------------------
\* the body of a replace carries an integer id other than the path's
BodyIdDiffers(request) ==
  /\ Has(request.body, "id")
  /\ request.body["id"].k = "int"
  /\ request.body["id"] # parseInt(request.id)

\* C10, as claimed: a replace whose body id is an integer other than the
\* path id is rejected and nothing is written.
C10_MismatchRejected ==
  [][ (req'.handler \in {"updateTrack", "updatePlaylist"} /\ BodyIdDiffers(req'))
        => /\ res'.status \in {400, 404}
           /\ tracks' = tracks
           /\ playlists' = playlists ]_vars

\* A replace step with a valid body whose id differs from the path id, on a
\* collection that holds the path id: answered 200, the addressed record
\* takes the body's fields and keeps the path id, the others are unchanged.
MismatchStep(handler, schema, fields, before, after) ==
  (/\ req'.handler = handler
   /\ BodyIdDiffers(req')
   /\ Validate(schema, req'.body) = NoError
   /\ Addressed(before, req'.id) # {})
  => /\ res'.status = 200
     /\ Len(after) = Len(before)
     /\ \A j \in 1..Len(before) :
          IF j \in Addressed(before, req'.id)
          THEN /\ after[j] = res'.body.data
               /\ after[j]["id"] = parseInt(req'.id)
               /\ after[j]["id"] = before[j]["id"]
               /\ \A f \in DOMAIN req'.body \cap fields : after[j][f] = req'.body[f]
          ELSE after[j] = before[j]

\* C10, amended: the body id of a replace is validated and then ignored; a
\* valid replace whose body id differs from the path id overwrites the
\* record the path addresses, which keeps the path id, and answers 200.
C10_MismatchIgnored ==
  [][ /\ MismatchStep("updateTrack", trackSchemaUpdate, TrackFields, tracks, tracks')
      /\ MismatchStep("updatePlaylist", playlistSchemaUpdate, PlaylistFields,
                      playlists, playlists') ]_vars

\* track 1 replaced by a body that says id 2
C10_Witness ==
  /\ Answered("updateTrack", 200)
  /\ req.body["id"] = Num(2)
  /\ res.body.data["id"] = Num(1)
  /\ res.body.data["naam"] = req.body["naam"]

-----------------------------------------------------------------------------
\* A replace step answered 200: the record the path addresses now holds the
\* path id and, for every other field, the body's value, spotify_url being
\* "" when the body has none; nothing of the record it held before is left.
\* It is the response's data, it is where it was, and every other record is
\* as it was.
ReplaceStep(handler, fields, before, after) ==
  Answers(handler, 200)
  => /\ Len(after) = Len(before)
     /\ Addressed(before, req'.id) # {}
     /\ \A j \in 1..Len(before) :
          IF j \in Addressed(before, req'.id)
          THEN /\ res'.body = [success |-> TRUE, data |-> after[j]]
               /\ DOMAIN after[j] = fields \cup {"id"}
               /\ after[j]["id"] = before[j]["id"]
               /\ \A f \in fields :
                    after[j][f] = IF Has(req'.body, f) THEN req'.body[f] ELSE Str(<<>>)
          ELSE after[j] = before[j]

\* C11: a replace answered 200 overwrote every field of the addressed record
\* but id with the body's values, set spotify_url to "" when the body omits
\* it, left the other records and the record's position alone, persisted
\* the record and returned it as data.
C11_ReplaceOverwrites ==
  [][ /\ ReplaceStep("updateTrack", TrackFields, tracks, tracks')
      /\ ReplaceStep("updatePlaylist", PlaylistFields, playlists, playlists')
      /\ Answers("updateTrack", 200) => playlists' = playlists
      /\ Answers("updatePlaylist", 200) => tracks' = tracks ]_vars

\* playlist 2, stored with a spotify_url, replaced by a body that has none
C11_Witness ==
  /\ Answered("updatePlaylist", 200)
  /\ nreq = 1
  /\ req.id = <<"2">>
  /\ ~Has(req.body, "spotify_url")
  /\ playlists[2] = NewPlaylist(Num(2), PlaylistBodyA)
  /\ playlists[1] = NewPlaylist(Num(1), PlaylistBodyA)

-----------------------------------------------------------------------------
\* what the data model asks of the body of a create: every required field
\* is there, every field that is there has a value of the field's type, and
\* no id is supplied
WellFormedCreate(body, fields, required) ==
  /\ required \subseteq DOMAIN body
  /\ ~IllTyped(body, fields)
  /\ DOMAIN body \subseteq fields

\* the answer to a body that is refused: 400 and an error with a message
Refused(response) ==
  /\ response.status = 400
  /\ DOMAIN response.body = {"error"}
  /\ response.body.error.code # ""

\* C12, as claimed: a create whose body lacks a required field, has a field
\* of another type than declared, a visibility other than public and
\* private, or an id, is answered 400 with an error message and writes
\* nothing.
C12_CreateValidated ==
  [][ /\ (req'.handler = "createTrack"
           /\ ~WellFormedCreate(req'.body, TrackFields, RequiredTrackFields))
          => Refused(res') /\ tracks' = tracks /\ playlists' = playlists
      /\ (req'.handler = "createPlaylist"
           /\ ~WellFormedCreate(req'.body, PlaylistFields, RequiredPlaylistFields))
          => Refused(res') /\ tracks' = tracks /\ playlists' = playlists ]_vars

-----------------------------------------------------------------------------
\* A replace step whose body the update schema refuses is answered 400 with
\* an error message and writes nothing, whether or not a record holds the
\* path id; a replace step answered 404 had a body the schema accepts.
InvalidReplaceStep(handler, schema) ==
  req'.handler = handler
  => /\ Validate(schema, req'.body) # NoError
          => Refused(res') /\ tracks' = tracks /\ playlists' = playlists
     /\ res'.status = 404 => Validate(schema, req'.body) = NoError

-----------------------------------------------------------------------------
\* A getById step for the id of the record that the create answered just
\* before returned: answered 200 with that same record.
GetAfterCreateStep(createHandler, getHandler) ==
  (/\ Answered(createHandler, 201)
   /\ req'.handler = getHandler
   /\ parseInt(req'.id) = res.body.data["id"])
  => res' = Response(200, [success |-> TRUE, data |-> res.body.data])

\* C14: a getById for the id of the record a create has just returned, no
\* other request in between, answers 200 with data equal to that record.
C14_CreateThenGet ==
  [][ /\ GetAfterCreateStep("createTrack", "getTrackById")
      /\ GetAfterCreateStep("createPlaylist", "getPlaylistById") ]_vars

\* getById of the playlist that the request before created as the third
C14_Witness ==
  /\ Answered("getPlaylistById", 200)
  /\ nreq = 2
  /\ Len(playlists) = 3
  /\ res.body.data = playlists[3]
  /\ deleted.playlists = {}

-----------------------------------------------------------------------------
\* A getById step: answered 200 with success and the stored record whose id
\* is the integer parseInt reads from the path id, or 404 with {} when no
\* record holds it; nothing is written.
GetByIdStep(handler, array) ==
  req'.handler = handler
  => /\ IF Addressed(array, req'.id) = {}
        THEN res' = Response(404, EmptyObject)
        ELSE \E j \in Addressed(array, req'.id) :
               /\ res' = Response(200, [success |-> TRUE, data |-> array[j]])
               /\ res'.body.data["id"] = parseInt(req'.id)
     /\ tracks' = tracks
     /\ playlists' = playlists

\* C15: getById answers 200 with the record whose id is the integer parsed
\* from the path id when there is one and 404 with {} when there is none,
\* and leaves the persisted collections unchanged.
C15_GetById ==
  [][ /\ GetByIdStep("getTrackById", tracks)
      /\ GetByIdStep("getPlaylistById", playlists) ]_vars

\* track 3 found under the path id "3x"
C15_Witness ==
  /\ Answered("getTrackById", 200)
  /\ req.id = <<"3", "x">>
  /\ res.body.data["id"] = Num(3)
  /\ Len(tracks) = 2

-----------------------------------------------------------------------------
(* What the claims on list requests speak of *)

\* the query carries the key with a value; a key sent empty (?jaar=) is
\* taken as not supplied
Supplied(query, key) == Has(query, key) /\ query[key].s # <<>>

\* the query asks for this order
Asks(query, order) == Has(query, "sort") /\ query["sort"].s = order

\* sub is part of s, the cases of the letters apart
ContainsFolded(s, sub) == includes(toLowerCase(s), toLowerCase(sub))

\* the track satisfies every filter the query supplies
TrackPasses(t, query) ==
  /\ Supplied(query, "naam") => ContainsFolded(t["naam"].s, query["naam"].s)
  /\ Supplied(query, "artiest") =>
       \E i \in 1..Len(t["artiesten"].a) :
         ContainsFolded(t["artiesten"].a[i].s, query["artiest"].s)
  /\ Supplied(query, "genre") =>
       \E i \in 1..Len(t["genres"].a) :
         ContainsFolded(t["genres"].a[i].s, query["genre"].s)
  /\ Supplied(query, "jaar") => t["jaar"] = parseInt(query["jaar"].s)

\* the playlist satisfies every filter the query supplies
PlaylistPasses(p, query) ==
  /\ Supplied(query, "naam") => ContainsFolded(p["naam"].s, query["naam"].s)
  /\ Supplied(query, "author") => ContainsFolded(p["author"].s, query["author"].s)
  /\ Supplied(query, "visibility") => p["visibility"] = query["visibility"]

\* the stored tracks, and the stored playlists, that pass, in stored order
TracksPassing(array, query) == SelectSeq(array, LAMBDA t : TrackPasses(t, query))
PlaylistsPassing(array, query) == SelectSeq(array, LAMBDA pl : PlaylistPasses(pl, query))

\* data holds the records that pass, each once, in some order
ExactlyThose(data, passing) ==
  /\ Len(data) = Len(passing)
  /\ {data[i] : i \in 1..Len(data)} = {passing[i] : i \in 1..Len(passing)}

\* data goes up (direction 1) or down (direction -1) by naam under
\* localeCompare, equal names side by side
Monotonic(data, direction) ==
  \A i \in 1..(Len(data) - 1) :
    direction * localeCompare(data[i]["naam"].s, data[i + 1]["naam"].s) <= 0

-----------------------------------------------------------------------------
\* C16: a list request, whatever its filters and its sort, leaves both
\* persisted collections as they were, the order of the records included;
\* a list request without filter and sort returns the records in the order
\* in which they are stored, also right after a sorted list.
C16_ListNeverWrites ==
  [][ req'.handler \in {"getAllTracks", "getAllPlaylists"}
        => /\ tracks' = tracks
           /\ playlists' = playlists
           /\ (req'.handler = "getAllTracks" /\ DOMAIN req'.query = {})
                => res'.body.data = tracks
           /\ (req'.handler = "getAllPlaylists" /\ DOMAIN req'.query = {})
                => res'.body.data = playlists ]_vars

\* playlists listed with sort=asc: the answer is in another order than the
\* document, which is as it was
C16_Witness ==
  /\ Answered("getAllPlaylists", 200)
  /\ Asks(req.query, asc)
  /\ Len(playlists) = 4
  /\ res.body.data # playlists
  /\ playlists[1]["id"] = Num(1) /\ playlists[4]["id"] = Num(5)

-----------------------------------------------------------------------------
\* What a list answer is, given the records that were to be returned:
\* going up by naam for sort=asc, down for sort=desc, in the stored order
\* for any other sort or none, and in each case exactly those records.
ListedInOrder(data, passing, query) ==
  /\ Asks(query, asc) => Monotonic(data, 1)
  /\ Asks(query, desc) => Monotonic(data, -1)
  /\ (~Asks(query, asc) /\ ~Asks(query, desc)) => data = passing
  /\ ExactlyThose(data, passing)

-----------------------------------------------------------------------------
\* C18: a tracks list is answered with exactly the stored tracks that
\* satisfy every supplied filter (naam, artiest and genre as parts of the
\* stored strings whatever the case, jaar as the integer read from the
\* parameter), a filter that is not supplied excludes nothing, and count
\* is the length of data.
C18_TrackFilters ==
  [][ req'.handler = "getAllTracks"
        => /\ res'.status = 200
           /\ res'.body.success = TRUE
           /\ ExactlyThose(res'.body.data, TracksPassing(tracks, req'.query))
           /\ res'.body.count = Num(Len(res'.body.data))
           /\ DOMAIN req'.query \subseteq {"sort"} => Len(res'.body.data) = Len(tracks) ]_vars

\* all four filters supplied, in another case than stored and jaar as
\* "1999x": of the four tracks the one that satisfies them all
C18_Witness ==
  /\ Answered("getAllTracks", 200)
  /\ \A key \in {"naam", "artiest", "genre", "jaar"} : Supplied(req.query, key)
  /\ req.query["naam"] = Str(<<"B">>)
  /\ Len(tracks) = 4
  /\ res.body.count = Num(1)
  /\ res.body.data[1]["id"] = Num(2)

-----------------------------------------------------------------------------
\* C19, as claimed: a playlists list with naam, author or visibility in its
\* query is answered with only the playlists that match every supplied
\* filter; visibility=public returns only public playlists.
C19_PlaylistFilters ==
  Answered("getAllPlaylists", 200)
  => ExactlyThose(res.body.data, PlaylistsPassing(playlists, req.query))

-----------------------------------------------------------------------------
\* the Track shape of the data model: id, bpm, duur and jaar integers, naam
\* and spotify_url strings, artiesten and genres non-empty arrays of strings
TrackShape(t) ==
  /\ DOMAIN t = TrackFields \cup {"id"}
  /\ t["id"].k = "int"
  /\ \A f \in TrackFields : HasType(f, t[f])
  /\ t["artiesten"].a # <<>>
  /\ t["genres"].a # <<>>

\* C20, as claimed: after any sequence of accepted create, replace and
\* patch requests on a well-formed collection every stored track is of the
\* Track shape.
C20_TrackShape == \A i \in 1..Len(tracks) : TrackShape(tracks[i])

-----------------------------------------------------------------------------
\* the requests that have arrived
Arrived == {c \in DOMAIN calls : calls[c].pc # "idle"}

\* the requests that have run to their end
Done == {c \in DOMAIN calls : calls[c].pc = "done"}

\* the messages of the catch blocks of the handlers that write
WriteFaultMessage ==
  [createTrack |-> "Error creating track", updateTrack |-> "Error updating track",
   patchTrack |-> "Error updating track", deleteTrack |-> "Error deleting track",
   createPlaylist |-> "Error creating playlist",
   updatePlaylist |-> "Error updating playlist",
   patchPlaylist |-> "Error updating playlist",
   deletePlaylist |-> "Error deleting playlist"]

\* C21 as stated: a request whose write failed is answered 500 with
\* { success: false, message: "Something went wrong!" }, and with nothing
\* else.
C21_GenericEnvelope ==
  \A c \in Done :
    calls[c].failed =>
      calls[c].sent = <<Response(500, [success |-> FALSE,
                                       message |-> "Something went wrong!"])>>

\* C21: when the write of the document fails during a create, replace,
\* patch or delete, the handler's own catch block answers 500 with
\* { success: false, message } where message is that handler's text
\* ("Error creating track", "Error updating track" for replace and patch,
\* "Error deleting track", and the same with "playlist"); no 200 or 201 is
\* sent for that request.
C21_WriteFaultAnswered500 ==
  \A c \in Done :
    calls[c].failed =>
      /\ calls[c].request.handler \in DOMAIN WriteFaultMessage
      /\ calls[c].sent =
           <<Response(500, [success |-> FALSE,
                            message |-> WriteFaultMessage[calls[c].request.handler]])>>

\* a create and a replace whose writes both failed
C21_Witness ==
  /\ calls[1].pc = "done" /\ calls[1].failed
  /\ calls[1].request.handler = "createTrack"
  /\ calls[1].sent[1].status = 500
  /\ calls[2].pc = "done" /\ calls[2].failed
  /\ calls[2].request.handler = "updatePlaylist"
  /\ calls[2].sent[1].body.message = "Error updating playlist"

\* the document of this request, as it is stored
StoredFor(c) ==
  IF calls[c].request.handler \in TrackHandlers THEN tracks ELSE playlists

\* what a request that read an unreadable document has come to
OnUnreadable(c) ==
  LET call == calls[c]
      handler == call.request.handler
      data == call.response.body.data
  IN IF handler \in {"getAllTracks", "getAllPlaylists"}
     THEN call.sent = <<Response(200, [success |-> TRUE, data |-> <<>>,
                                       count |-> Num(0)])>>
     ELSE IF handler \in {"createTrack", "createPlaylist"}
     THEN /\ call.response.status = 201
          /\ data["id"] = Num(1)
          /\ call.array = <<data>>
          /\ call.pc = "done" =>
               \/ call.failed
               \/ call.sent = <<call.response>>
     ELSE /\ call.pc = "done"
          /\ Len(call.sent) = 1
          /\ call.sent[1].status = 404

\* C22: a document that is absent or unparseable is read as the empty
\* array and no error comes of it: the list answers 200 with data [] and
\* count 0; get by id, replace (of a body the schema accepts), patch and
\* delete answer 404; a valid create gives id 1, and once its write has
\* succeeded the document holds the new record and nothing else.
C22_UnreadableIsEmpty ==
  /\ [](\A c \in Arrived : calls[c].fallback => OnUnreadable(c))
  /\ [][\A c \in Arrived :
          /\ calls[c].fallback
          /\ calls[c].pc = "write"
          /\ calls'[c].pc = "done"
          /\ ~calls'[c].failed
          => /\ StoredFor(c)' = <<calls'[c].sent[1].body.data>>
             /\ Collection(calls[c].request.handler) \notin unreadable']_vars

\* tracks.json unreadable: a delete answered 404, then a create whose write
\* made the document readable
C22_Witness ==
  /\ calls[1].pc = "done" /\ calls[1].fallback
  /\ calls[1].request.handler = "deleteTrack"
  /\ calls[1].sent[1].status = 404
  /\ calls[2].pc = "done" /\ calls[2].fallback /\ ~calls[2].failed
  /\ calls[2].request.handler = "createTrack"
  /\ calls[2].sent[1].status = 201
  /\ tracks = <<NewTrack(Num(1), TrackBodyA)>>
  /\ "tracks" \notin unreadable

\* the creates that were answered 201
Created201 ==
  {c \in Done : /\ calls[c].request.handler \in {"createTrack", "createPlaylist"}
                /\ calls[c].sent = <<calls[c].response>>
                /\ calls[c].response.status = 201}

\* the record a create was answered with
CreatedRecord(c) == calls[c].sent[1].body.data

\* the record is stored under its id, and no other record is
Holds(array, record) ==
  \E i \in 1..Len(array) :
    /\ array[i] = record
    /\ \A j \in 1..Len(array) : array[j]["id"] = record["id"] => j = i

\* C23 as stated: when creates are the only requests, any two of them on
\* one collection that were answered 201 were given two ids, and the
\* document holds both records.
C23_BothCreatesPersisted ==
  (\A e \in Arrived : calls[e].request.handler \in {"createTrack", "createPlaylist"})
  => \A c, d \in Created201 :
       c # d /\ calls[c].request.handler = calls[d].request.handler
       => /\ CreatedRecord(c)["id"] # CreatedRecord(d)["id"]
          /\ Holds(StoredFor(c), CreatedRecord(c))
          /\ Holds(StoredFor(d), CreatedRecord(d))

\* the requests that were answered after their write
Wrote ==
  {c \in Done : /\ calls[c].sent = <<calls[c].response>>
                /\ calls[c].response.status \in {200, 201}
                /\ calls[c].request.handler \notin
                     {"getAllTracks", "getTrackById", "getAllPlaylists", "getPlaylistById"}}

\* C23: nothing keeps the read and the write of two requests on one
\* collection apart: dispatch is serial between awaits only, and the reads
\* and writes of requests in flight interleave.  Once requests have written
\* a document it is, whole, the array one of them wrote (what that request
\* read, with its own change and no other), or it is unparseable; so of two
\* creates that read the same array, both answered 201 with the same id, at
\* most one record is kept.  A create that had its collection to itself
\* from its arrival to its response appends its record to the document as
\* it stands, under an id no stored record holds; so creates that are each
\* answered before the next arrives are all stored, under ids that differ.
C23_OneSaveWins ==
  /\ [](\A c \in Wrote :
          \/ Collection(calls[c].request.handler) \in unreadable
          \/ \E d \in Wrote : /\ Collection(calls[d].request.handler)
                                   = Collection(calls[c].request.handler)
                                /\ StoredFor(c) = calls[d].array)
  /\ [][\A c \in DOMAIN calls :
          calls[c].pc = "write" /\ calls'[c].pc = "done" /\ calls[c].alone
          /\ c \in Created201'
          => /\ StoredFor(c)' = Append(StoredFor(c), calls'[c].sent[1].body.data)
             /\ calls'[c].sent[1].body.data["id"] \notin Ids(StoredFor(c))]_vars
  /\ []((\A e \in Arrived : /\ calls[e].request.handler \in {"createTrack", "createPlaylist"}
                            /\ calls[e].alone)
        => \A c, d \in Created201 :
             c # d /\ calls[c].request.handler = calls[d].request.handler
             => /\ CreatedRecord(c)["id"] # CreatedRecord(d)["id"]
                /\ Holds(StoredFor(c), CreatedRecord(c))
                /\ Holds(StoredFor(d), CreatedRecord(d)))

\* two creates, the second arrived after the first was answered: ids 4, 5
C23_Witness ==
  /\ Created201 = {1, 2}
  /\ calls[1].alone /\ calls[2].alone
  /\ calls[1].request.handler = "createTrack"
  /\ calls[2].request.handler = "createTrack"
  /\ Len(tracks) = 4
  /\ tracks[3]["id"] = Num(4) /\ tracks[4]["id"] = Num(5)

\* C24: every request to a handler runs to its end and sends exactly one
\* response, of status 200, 201, 400, 404 or 500, on every path (body
\* refused, id absent, success, failed write); before its end it has sent
\* none, and no path sends two.
C24_ExactlyOneResponse ==
  /\ [](\A c \in DOMAIN calls :
          IF calls[c].pc = "done"
          THEN /\ Len(calls[c].sent) = 1
               /\ calls[c].sent[1].status \in {200, 201, 400, 404, 500}
          ELSE calls[c].sent = <<>>)
  /\ \A c \in 1..MaxCalls : (calls[c].pc # "idle") ~> (calls[c].pc = "done")

\* the four paths: a body refused and an id absent, or a success and a
\* failed write
C24_Witness ==
  /\ Done = DOMAIN calls
  /\ \/ calls[1].sent[1].status = 400 /\ calls[2].sent[1].status = 404
     \/ calls[1].sent[1].status = 201 /\ calls[2].sent[1].status = 500

-----------------------------------------------------------------------------
\* the id a create gives out as the ids of its own collection decide it:
\* one above the largest of them, 1 when there is none
OwnNextId(array) ==
  IF array = <<>> THEN Num(1)
  ELSE Num(1 + CHOOSE m \in {array[i]["id"].n : i \in 1..Len(array)} :
                  \A i \in 1..Len(array) : array[i]["id"].n <= m)

\* C25: no request to /api/tracks, whatever its verb and its answer,
\* changes playlists.json, and no request to /api/playlists changes
\* tracks.json; the id a create gives out is decided by the ids of its own
\* collection alone.
C25_CollectionsIndependent ==
  [][ /\ req'.handler \in TrackHandlers => playlists' = playlists
      /\ req'.handler \in PlaylistHandlers => tracks' = tracks
      /\ Answers("createTrack", 201) => res'.body.data["id"] = OwnNextId(tracks)
      /\ Answers("createPlaylist", 201) => res'.body.data["id"] = OwnNextId(playlists) ]_vars

\* the first playlist created while tracks.json holds tracks 1 and 3
C25_Witness ==
  /\ Answered("createPlaylist", 201)
  /\ res.body.data["id"] = Num(1)
  /\ Len(playlists) = 1
  /\ deleted.playlists = {}
  /\ Len(tracks) = 2 /\ tracks[2]["id"] = Num(3)

=============================================================================
